---- MODULE Spec2Model ----
(***************************************************************************)
(* Model of run_data_ingestion.py: the scheduled ingestion orchestrator.   *)
(* One orchestrator process runs main() repeatedly (one run per cron       *)
(* tick).  The state is the persisted files (schedule, run history,        *)
(* output and backup files), the locals of main() and the position of the  *)
(* process inside the job loop.                                            *)
(***************************************************************************)
EXTENDS Integers, Sequences, FiniteSets, TLC

\* ----------------------------------------------------------------- bounds
MaxJobRuns == 2     \* job iterations explored: runs x jobs of the schedule
TicksPerDay == 2    \* clock resolution: ticks in one calendar day
MaxNow == TicksPerDay    \* the clock runs from day 0 to the midnight of day 1
MaxLastRun == 2     \* scheduling policy: latest last_run day drawn
MaxIntervalDays == 2   \* scheduling policy: longest interval_days drawn
MaxDocs == 2        \* validators alone: longest batch drawn
MaxHist == 1        \* run history alone: longest history file to start from

\* ------------------------------------------------------------ JSON values
Absent == "<absent>"              \* key missing from a JSON object
JobNames == <<"a", "b">>          \* mapping-iteration order of the jobs
JobLists == { SubSeq(JobNames, 1, n) : n \in 1..Len(JobNames) }

\* Python truthiness of dict.get(key, default) for a boolean-valued key
Truthy(v, default) == IF v = Absent THEN default ELSE v = "true"

\* a path, or None
NoPath == [kind |-> "none", date |-> 0, job |-> ""]
Path(kind, date, job) == [kind |-> kind, date |-> date, job |-> job]

\* a reason string; next-run dates are carried in `at`
Reason(msg) == [msg |-> msg, at |-> 0]

\* ------------------------------------------------------- document batches
\* A JSON value of a document field: a plain scalar, or an object with keys.
Plain(v) == [isobj |-> FALSE, keys |-> {}, v |-> v]
Obj(keys) == [isobj |-> TRUE, keys |-> keys, v |-> ""]
Field(name, val) == [name |-> name, val |-> val]
\* A document: a JSON object as its fields in order (or a non-object element)
Doc(fields) == [isobj |-> TRUE, fields |-> fields]
Scalar == [isobj |-> FALSE, fields |-> <<>>]
\* A file's parsed content: a JSON array of elements, or some other JSON value
Batch(docs) == [array |-> TRUE, docs |-> docs]
NotArray == [array |-> FALSE, docs |-> <<>>]

UpdateOps == {"set", "add", "remove", "inc"}

HasField(doc, name) == \E i \in 1..Len(doc.fields) : doc.fields[i].name = name
FieldVal(doc, name) ==
  doc.fields[CHOOSE i \in 1..Len(doc.fields) : doc.fields[i].name = name].val

\* the index of the first element of 1..n satisfying P, or 0
FirstIdx(n, P(_)) ==
  IF \E i \in 1..n : P(i) THEN CHOOSE i \in 1..n : P(i) /\ \A j \in 1..(i-1) : ~P(j)
  ELSE 0

\* validate_json: the file parses as a JSON array
validate_json(data) == IF data.array THEN "ok" ELSE "InvalidFormat"

\* the insert check with the unique-key field exempt from the operator test
InsertDocError_KeyExempt(doc, unique_key) ==
  IF ~doc.isobj THEN "InvalidFormat"
  ELSE IF ~HasField(doc, unique_key) THEN "MissingKey"
  ELSE IF \E i \in 1..Len(doc.fields) :
            /\ doc.fields[i].name # unique_key
            /\ doc.fields[i].val.isobj /\ doc.fields[i].val.keys \cap UpdateOps # {}
       THEN "InvalidInsertShape"
  ELSE "ok"

\* the error one document raises in the insert check, or "ok"
InsertDocError(doc, unique_key) ==
  IF ~doc.isobj THEN "InvalidFormat"
  ELSE IF ~HasField(doc, unique_key) THEN "MissingKey"
  ELSE IF \E i \in 1..Len(doc.fields) :
            doc.fields[i].val.isobj /\ doc.fields[i].val.keys \cap UpdateOps # {}
       THEN "InvalidInsertShape"
  ELSE "ok"

validate_solr_insert_file(data, unique_key) ==
  IF validate_json(data) # "ok" THEN validate_json(data)
  ELSE LET bad == FirstIdx(Len(data.docs),
                           LAMBDA i : InsertDocError(data.docs[i], unique_key) # "ok")
       IN IF bad = 0 THEN "ok" ELSE InsertDocError(data.docs[bad], unique_key)

\* the update check that lets an operator-shaped value pass whatever its field
UpdateFieldError_OperatorPasses(f, permitted, unique_key) ==
  IF f.name = unique_key THEN "ok"
  ELSE IF f.val.isobj /\ f.val.keys \cap UpdateOps # {} THEN "ok"
  ELSE IF f.name \notin permitted THEN "UnexpectedField"
  ELSE "InvalidUpdateShape"

\* the error one field raises in the update check, or "ok"
UpdateFieldError(f, permitted, unique_key) ==
  IF f.name = unique_key THEN "ok"
  ELSE IF f.name \notin permitted THEN "UnexpectedField"
  ELSE IF ~f.val.isobj \/ f.val.keys \cap UpdateOps = {} THEN "InvalidUpdateShape"
  ELSE "ok"

UpdateDocError(doc, permitted, unique_key) ==
  IF ~doc.isobj THEN "InvalidFormat"
  ELSE IF ~HasField(doc, unique_key) THEN "MissingKey"
  ELSE LET bad == FirstIdx(Len(doc.fields),
                 LAMBDA i : UpdateFieldError(doc.fields[i], permitted, unique_key) # "ok")
       IN IF bad = 0 THEN "ok"
          ELSE UpdateFieldError(doc.fields[bad], permitted, unique_key)

\* validate_solr_update_file: the error raised, or "ok" and the documents
\* returned (the list validate_json parsed)
validate_solr_update_file(data, permitted, unique_key) ==
  IF validate_json(data) # "ok" THEN [res |-> validate_json(data), docs |-> <<>>]
  ELSE LET bad == FirstIdx(Len(data.docs),
                 LAMBDA i : UpdateDocError(data.docs[i], permitted, unique_key) # "ok")
       IN IF bad = 0 THEN [res |-> "ok", docs |-> data.docs]
          ELSE [res |-> UpdateDocError(data.docs[bad], permitted, unique_key),
                docs |-> <<>>]

\* ids = [doc[unique_key] for doc in docs if unique_key in doc]
RECURSIVE ExtractIds(_, _)
ExtractIds(docs, unique_key) ==
  IF docs = <<>> THEN <<>>
  ELSE LET d == Head(docs)
       IN (IF HasField(d, unique_key) THEN <<FieldVal(d, unique_key).v>> ELSE <<>>)
          \o ExtractIds(Tail(docs), unique_key)

\* the batches an external script writes in this model
GoodInsert == Batch(<<Doc(<<Field("id", Plain("1")), Field("name", Plain("x"))>>)>>)
BadInsert == Batch(<<Doc(<<Field("id", Plain("1")), Field("count", Obj({"inc"}))>>)>>)
GoodUpdate == Batch(<<Doc(<<Field("id", Plain("1")), Field("count", Obj({"set"}))>>),
                      Doc(<<Field("id", Plain("2")), Field("count", Obj({"add"}))>>)>>)
BadUpdate == Batch(<<Doc(<<Field("id", Plain("1")), Field("other", Obj({"set"}))>>)>>)
InsertBatches == {GoodInsert, BadInsert}
UpdateBatches == {GoodUpdate, BadUpdate}

\* --------------------------------------------------------- the schedule
\* a target descriptor of solr_insert / solr_update
Target(core, key, fields) ==
  [core_name |-> core, key |-> key, has_fields |-> TRUE, fields |-> fields]
\* a target descriptor without a `fields` entry
TargetNoFields(core, key) ==
  [core_name |-> core, key |-> key, has_fields |-> FALSE, fields |-> {}]

\* the target at the end of the list
first_target_Last(confs) == confs[Len(confs)]

\* main(), lines 338, 345, 366 and 370: script_meta.get(...)[0]
first_target(confs) == confs[1]

\* main(), line 349: update_conf.get("fields", [])
allowed_fields(update_conf) ==
  IF update_conf.has_fields THEN update_conf.fields ELSE {}

\* the solr_insert / solr_update lists of this model: no target, or two
\* targets of which the second or the first lacks `key`
FirstInsert == <<Target("core_i", "id", {}), Target("core_x", Absent, {})>>
FirstUpdate ==
  <<Target("core_u", "id", {"count"}), Target("core_y", Absent, {"count"})>>
InsertConfs ==
  { <<>>, FirstInsert, <<Target("core_i", Absent, {}), Target("core_x", "id", {})>> }
UpdateConfs ==
  { <<>>, FirstUpdate,
    <<Target("core_u", Absent, {"count"}), Target("core_y", "id", {"count"})>> }
Flags == {"true", "false", Absent}
Intervals == {1}

AllMetas ==
  [ script_file : {Absent, "", "run.sh"}, last_run : {0}, interval_days : Intervals,
    force_run : Flags, disabled : Flags,
    solr_insert : InsertConfs, solr_update : UpdateConfs ]

\* the job is skipped before the scheduling policy is consulted
SkippedEarly(meta) == Truthy(meta.disabled, TRUE) \/ meta.script_file \in {Absent, ""}

\* The descriptors a schedule file holds in this model.  A descriptor that is
\* skipped early has one reason to be skipped and carries a force flag and
\* usable targets; a descriptor whose first target lacks `key` in one
\* direction has a usable first target in the other.
Metas ==
  { m \in AllMetas :
      /\ m.force_run # Absent
      /\ SkippedEarly(m) =>
           /\ m.force_run = "true"
           /\ m.solr_insert = FirstInsert /\ m.solr_update = FirstUpdate
           /\ (m.disabled = "false") # (m.script_file = "run.sh")
      /\ (m.solr_insert # <<>> /\ m.solr_insert[1].key = Absent) =>
           m.solr_update = FirstUpdate
      /\ (m.solr_update # <<>> /\ m.solr_update[1].key = Absent) =>
           m.solr_insert = FirstInsert }

\* get_next_run_date: fromisoformat(last_run) + timedelta(days=interval_days),
\* a datetime at midnight, in clock ticks
get_next_run_date(script_meta) ==
  (script_meta.last_run + script_meta.interval_days) * TicksPerDay

\* should_run with the boundary excluded (> for >=)
should_run_Strict(script_meta, t) ==
  IF Truthy(script_meta.force_run, FALSE)
  THEN [run |-> TRUE, reason |-> Reason("Forced execution")]
  ELSE [run |-> t > get_next_run_date(script_meta),
        reason |-> [msg |-> "next run", at |-> get_next_run_date(script_meta)]]

\* should_run: (run?, reason) for a descriptor at clock time t
should_run(script_meta, t) ==
  IF Truthy(script_meta.force_run, FALSE)
  THEN [run |-> TRUE, reason |-> Reason("Forced execution")]
  ELSE [run |-> t >= get_next_run_date(script_meta),
        reason |-> [msg |-> "next run", at |-> get_next_run_date(script_meta)]]

\* strftime("%Y-%m-%d") of a datetime: the calendar day of a clock tick
Date(t) == t \div TicksPerDay

\* ------------------------------------------------------------- the state
VARIABLES
  now,          \* the wall clock (datetime.now()), in ticks
  schedFile,    \* config/ingestion_schedule.json
  histFile,     \* data/run_history.json
  disk,         \* the insert, update and backup files that exist, with content
  store,        \* the document store: batches applied so far, by commit mode
  protected,    \* ghost: each backup file as it was when its update was committed
  pc,           \* position of the orchestrator process
  runs,         \* orchestrator runs started so far
  outcome,      \* how the last run of main() ended
  schedule,     \* main(): the loaded schedule (settings and scripts alias it)
  idx,          \* main(): position of the job loop in scripts.items()
  run_time, insert_file, update_file, backup_file, status, reason,  \* main() locals
  ids,          \* main(): ids extracted from the validated update batch
  ev,           \* what the current job iteration has done so far, in order
  sched0,       \* the schedule file as it was when the current run started
  hist0         \* the history file as it was when the current run started

vars == << now, schedFile, histFile, disk, store, protected, pc, runs, outcome,
           schedule, idx,
           run_time, insert_file, update_file, backup_file, status, reason,
           ids, ev, sched0, hist0 >>

locals == << run_time, insert_file, update_file, backup_file, status, reason, ids >>

\* ---------------------------------------------------------- file helpers
Exists(d, p) == \E f \in d : f.path = p
Content(d, p) == (CHOOSE f \in d : f.path = p).data
WriteFile(d, p, data) == {f \in d : f.path # p} \cup {[path |-> p, data |-> data]}
Unlink(d, p) == {f \in d : f.path # p}

\* what the external script leaves in its log file
ScriptLog == [array |-> FALSE, docs |-> <<>>]

\* the cleanup loop of execute_script looks at the insert file only
Cleanup_InsertOnly(d, output_insert_file, output_update_file) ==
  {p \in {output_insert_file} : p # NoPath /\ Exists(d, p)}

\* execute_script, lines 151-152: the output files the cleanup loop unlinks
Cleanup(d, output_insert_file, output_update_file) ==
  {p \in {output_insert_file, output_update_file} : p # NoPath /\ Exists(d, p)}

\* the entries json.loads yields for the history file (corrupt/missing: [])
HistEntries(h) == IF h.kind = "list" THEN h.entries ELSE <<>>

\* an append that leaves out an entry the history already holds
append_run_history_Dedup(h, entry) ==
  [kind |-> "list",
   entries |-> IF \E i \in 1..Len(HistEntries(h)) : HistEntries(h)[i] = entry
               THEN HistEntries(h) ELSE Append(HistEntries(h), entry)]

\* append_run_history(entry): the file content after a successful append
append_run_history(h, entry) ==
  [kind |-> "list", entries |-> Append(HistEntries(h), entry)]

\* load_schedule that raises on a file it cannot parse
load_schedule_ParseErrorFatal(f) ==
  IF f.kind = "missing" THEN [f EXCEPT !.kind = "empty"]
  ELSE IF f.kind = "malformed" THEN [f EXCEPT !.kind = "raised"]
  ELSE f

\* load_schedule (lines 55-66): the mapping read from the schedule file, the
\* empty mapping when the file is missing or is not JSON
load_schedule(f) ==
  IF f.kind \in {"missing", "malformed"} THEN [f EXCEPT !.kind = "empty"] ELSE f

\* update_run_date: the in-memory schedule after the assignment of line 91
update_run_date(script_name, sched, timestamp) ==
  [sched EXCEPT !.scripts[script_name].last_run = timestamp]

\* the job the loop is at, and its descriptor (script_name, script_meta)
script_name == schedule.names[idx]
script_meta == schedule.scripts[script_name]

\* a backup query that asks for one row
backup_query_OneRow(unique_key, id_list) ==
  [key |-> unique_key, terms |-> id_list, rows |-> 1]

\* backup_solr_docs, lines 226-237: q = key:(id1 OR id2 ...), rows = len(ids)
backup_query(unique_key, id_list) ==
  [key |-> unique_key, terms |-> id_list, rows |-> Len(id_list)]

\* the document store before any commit
EmptyStore == [insert |-> 0, update |-> 0]

\* the store after the commit tool has applied a batch in the given mode
Applied(st, mode) == [st EXCEPT ![mode] = st[mode] + 1]

\* the document array the store returns for a query: the documents whose key
\* is one of the terms, in their order, at most `rows` of them, each as the
\* updates applied so far have left it
Snapshot(q, st) ==
  LET n == IF q.rows < Len(q.terms) THEN q.rows ELSE Len(q.terms)
  IN Batch([i \in 1..n |->
       Doc(<<Field(q.key, Plain(q.terms[i])),
             Field("_version_", Plain(ToString(st.update)))>>)])

\* --------------------------------------------------------------- events
\* ev records what the job iteration did: the phase and whether it succeeded;
\* for the script the --date argument (since), the files it wrote and the
\* files its cleanup could not remove; for a
\* backup or a commit the core addressed, for a backup the ids and the rows of
\* its query, for an update commit the ids of the committed batch
Ev(kind, ok) ==
  [kind |-> kind, ok |-> ok, ids |-> <<>>, rows |-> 0, core |-> "", since |-> 0,
   wrote |-> {}, kept |-> {}]
EvScript(ok, last_run_date, written, not_removed) ==
  [Ev("script", ok) EXCEPT !.since = last_run_date, !.wrote = written,
                           !.kept = not_removed]
EvCore(kind, ok, core_name) == [Ev(kind, ok) EXCEPT !.core = core_name]
EvIds(kind, ok, core_name, id_list, n) ==
  [Ev(kind, ok) EXCEPT !.core = core_name, !.ids = id_list, !.rows = n]
Did(kind) == \E i \in 1..Len(ev) : ev[i].kind = kind
DidOk(kind) == \E i \in 1..Len(ev) : ev[i].kind = kind /\ ev[i].ok

\* ----------------------------------------------------------------- Init
\* the job gets past the early skips and has insert or update targets
RunsWithTargets(meta) ==
  ~SkippedEarly(meta) /\ (meta.solr_insert # <<>> \/ meta.solr_update # <<>>)

\* the schedule files of this model: one or two jobs, at most one of them
\* enabled with insert or update targets
SchedulesOf(l) ==
  { [kind |-> "json", settings |-> [commit_solr |-> c], names |-> l, scripts |-> s] :
      c \in Flags,
      s \in { f \in [ {l[i] : i \in 1..Len(l)} -> Metas ] :
                Cardinality({j \in DOMAIN f : RunsWithTargets(f[j])}) <= 1 } }
\* schedule files with nothing to run: the file is missing, is not JSON, holds
\* the empty mapping {}, or holds a mapping without (or with empty) scripts
NoSchedules ==
  { [kind |-> k, settings |-> [commit_solr |-> Absent], names |-> <<>>,
     scripts |-> <<>>] : k \in {"missing", "malformed", "empty", "json"} }
Schedules == UNION { SchedulesOf(l) : l \in JobLists } \cup NoSchedules

\* a fresh deployment: no run history file yet
HistFiles == { [kind |-> "missing", entries |-> <<>>] }

Init ==
  /\ now = 0
  /\ schedFile \in Schedules
  /\ histFile \in HistFiles
  /\ disk = {}
  /\ store = EmptyStore
  /\ protected = {}
  /\ pc = "idle"
  /\ runs = 0
  /\ outcome = "not run"
  /\ schedule = schedFile
  /\ idx = 1
  /\ run_time = 0
  /\ insert_file = NoPath
  /\ update_file = NoPath
  /\ backup_file = NoPath
  /\ status = "skipped"
  /\ reason = Reason("not scheduled")
  /\ ids = <<>>
  /\ ev = <<>>
  /\ sched0 = schedFile
  /\ hist0 = histFile

\* -------------------------------------------------------------- actions
\* main() has returned or was left by an exception: its locals are gone
Exit(how) ==
  /\ pc' = "idle"
  /\ outcome' = how
  /\ idx' = 1
  /\ run_time' = 0
  /\ insert_file' = NoPath
  /\ update_file' = NoPath
  /\ backup_file' = NoPath
  /\ status' = "skipped"
  /\ reason' = Reason("not scheduled")
  /\ ids' = <<>>

\* an exception reaches `except Exception` of the job loop (lines 378-381)
Raise(msg) ==
  /\ status' = "failure"
  /\ reason' = Reason(msg)
  /\ pc' = "finally"

\* the clock advances
Tick ==
  /\ pc = "idle"
  /\ now < MaxNow
  /\ now' = now + 1
  /\ UNCHANGED << schedFile, histFile, disk, store, protected,
                  pc, runs, outcome, schedule,
                  idx, locals, ev, sched0, hist0 >>

\* main(), lines 289-298: load the schedule; return when it is the empty
\* mapping or has no scripts
StartRun ==
  /\ pc = "idle"
  /\ (runs + 1) * Len(schedFile.names) <= MaxJobRuns
  /\ runs < MaxJobRuns
  /\ runs' = runs + 1
  /\ sched0' = schedFile
  /\ hist0' = histFile
  /\ ev' = <<>>
  /\ LET loaded == load_schedule(schedFile)
     IN IF loaded.kind = "raised"
        THEN Exit("crashed") /\ UNCHANGED schedule
        ELSE IF loaded.kind = "empty"
        THEN Exit("no schedule") /\ UNCHANGED schedule
        ELSE IF loaded.names = <<>>
        THEN Exit("no scripts") /\ schedule' = loaded
        ELSE /\ schedule' = loaded
             /\ pc' = "loop"
             /\ outcome' = "running"
             /\ UNCHANGED << idx, locals >>
  /\ UNCHANGED << now, store, protected, schedFile, histFile, disk >>

\* main(), lines 300-307: the loop takes the next job and resets the locals
BeginJob ==
  /\ pc = "loop"
  /\ idx <= Len(schedule.names)
  /\ run_time' = now
  /\ insert_file' = NoPath
  /\ update_file' = NoPath
  /\ backup_file' = NoPath
  /\ status' = "skipped"
  /\ reason' = Reason("not scheduled")
  /\ ids' = <<>>
  /\ ev' = <<>>
  /\ pc' = "gate"
  /\ UNCHANGED << now, store, protected,
                  schedFile, histFile, disk, runs, outcome, schedule, idx,
                  sched0, hist0 >>

\* main(): the loop is exhausted and main() returns
EndRun ==
  /\ pc = "loop"
  /\ idx > Len(schedule.names)
  /\ Exit("complete")
  /\ ev' = <<>>
  /\ UNCHANGED << now, store, protected,
                  schedFile, histFile, disk, runs, schedule, sched0, hist0 >>

\* the disabled flag with the default of an opt-out design
Disabled_DefaultFalse(meta) == Truthy(meta.disabled, FALSE)

\* main(), line 311: script_meta.get("disabled", True)
Disabled(meta) == Truthy(meta.disabled, TRUE)

\* Gate whose `continue` goes to the next job without the finally block
Gate_ContinueSkipsFinally ==
  /\ pc = "gate"
  /\ IF Disabled(script_meta) \/ script_meta.script_file \in {Absent, ""}
     THEN /\ reason' = Reason("disabled")
          /\ pc' = "loop"
          /\ idx' = idx + 1
          /\ ev' = ev
     ELSE LET r == should_run(script_meta, now)
          IN /\ reason' = r.reason
             /\ pc' = IF r.run THEN "execute" ELSE "finally"
             /\ ev' = Append(ev, Ev("should_run", TRUE))
             /\ idx' = idx
  /\ UNCHANGED << now, store, protected,
                  schedFile, histFile, disk, runs, outcome, schedule,
                  run_time, insert_file, update_file, backup_file, status, ids,
                  sched0, hist0 >>

\* main(), lines 310-327: disabled, no script_file, or not due -> continue
Gate ==
  /\ pc = "gate"
  /\ IF Disabled(script_meta)
     THEN /\ reason' = Reason("disabled")
          /\ pc' = "finally"
          /\ ev' = ev
     ELSE IF script_meta.script_file \in {Absent, ""}
     THEN /\ reason' = Reason("no script_file")
          /\ pc' = "finally"
          /\ ev' = ev
     ELSE LET r == should_run(script_meta, now)
          IN /\ reason' = r.reason
             /\ pc' = IF r.run THEN "execute" ELSE "finally"
             /\ ev' = Append(ev, Ev("should_run", TRUE))
  /\ UNCHANGED << now, store, protected,
                  schedFile, histFile, disk, runs, outcome, schedule, idx,
                  run_time, insert_file, update_file, backup_file, status, ids,
                  sched0, hist0 >>

\* execute_script (lines 110-161) as called at lines 328-334.  The script is
\* found or not, exits 0 or not, and has written each file it was asked for or
\* not; its output goes to the log file.  After a non-zero exit each file that
\* exists at an output path is unlinked, and an unlink that fails is logged.
ExecuteScript ==
  /\ pc = "execute"
  /\ LET has_insert == script_meta.solr_insert # <<>>
         has_update == script_meta.solr_update # <<>>
         today == Date(now)
         output_insert_file == IF has_insert THEN Path("insert", today, script_name)
                               ELSE NoPath
         output_update_file == IF has_update THEN Path("update", today, script_name)
                               ELSE NoPath
         log_file_path == Path("log", today, script_name)
     IN \E is_file \in BOOLEAN, exit_ok \in BOOLEAN,
           wrote_insert \in {w \in BOOLEAN : w => has_insert},
           wrote_update \in {w \in BOOLEAN : w => has_update} :
        \E insert_data \in {b \in InsertBatches : ~wrote_insert => b = GoodInsert},
           update_data \in {b \in UpdateBatches : ~wrote_update => b = GoodUpdate} :
          IF ~is_file
          THEN /\ Raise("Script file not found")
               /\ ev' = Append(ev, Ev("script_missing", FALSE))
               /\ UNCHANGED << disk, insert_file, update_file >>
          ELSE LET d0 == WriteFile(disk, log_file_path, ScriptLog)
                   d1 == IF wrote_insert
                         THEN WriteFile(d0, output_insert_file, insert_data)
                         ELSE d0
                   d2 == IF wrote_update
                         THEN WriteFile(d1, output_update_file, update_data)
                         ELSE d1
                   written == (IF wrote_insert THEN {"insert"} ELSE {})
                                \cup (IF wrote_update THEN {"update"} ELSE {})
               IN IF exit_ok
                  THEN /\ disk' = d2
                       /\ insert_file' = output_insert_file
                       /\ update_file' = output_update_file
                       /\ ev' = Append(ev, EvScript(TRUE, script_meta.last_run, written, {}))
                       /\ pc' = "validate_insert"
                       /\ UNCHANGED << status, reason >>
                  ELSE \E unlinked \in SUBSET Cleanup(d2, output_insert_file,
                                                      output_update_file) :
                       /\ disk' = {f \in d2 : f.path \notin unlinked}
                       /\ ev' = Append(ev, EvScript(FALSE, script_meta.last_run, written,
                            {p.kind : p \in Cleanup(d2, output_insert_file,
                                                    output_update_file) \ unlinked}))
                       /\ Raise("Execution failed")
                       /\ UNCHANGED << insert_file, update_file >>
  /\ UNCHANGED << now, store, protected,
                  schedFile, histFile, runs, outcome, schedule, idx,
                  run_time, backup_file, ids, sched0, hist0 >>

\* ValidateInsert that logs a validation error and goes on
ValidateInsert_IgnoresInvalid ==
  /\ pc = "validate_insert"
  /\ IF insert_file # NoPath /\ Exists(disk, insert_file)
     THEN LET insert_conf == first_target(script_meta.solr_insert)
              res == validate_solr_insert_file(Content(disk, insert_file),
                                               insert_conf.key)
          IN IF insert_conf.key = Absent
             THEN /\ Raise("solr_insert config is missing 'key'")
                  /\ ev' = Append(ev, Ev("insert_config", FALSE))
             ELSE /\ pc' = "validate_update"
                  /\ ev' = Append(ev, Ev("validate_insert", res = "ok"))
                  /\ UNCHANGED << status, reason >>
     ELSE /\ pc' = "validate_update"
          /\ UNCHANGED << status, reason, ev >>
  /\ UNCHANGED << now, store, protected,
                  schedFile, histFile, disk, runs, outcome, schedule, idx,
                  run_time, insert_file, update_file, backup_file, ids,
                  sched0, hist0 >>

\* main(), lines 336-341: validate the insert file when it exists
ValidateInsert ==
  /\ pc = "validate_insert"
  /\ IF insert_file # NoPath /\ Exists(disk, insert_file)
     THEN LET insert_conf == first_target(script_meta.solr_insert)
              res == validate_solr_insert_file(Content(disk, insert_file),
                                               insert_conf.key)
          IN IF insert_conf.key = Absent
             THEN /\ Raise("solr_insert config is missing 'key'")
                  /\ ev' = Append(ev, Ev("insert_config", FALSE))
             ELSE IF res # "ok"
             THEN /\ Raise(res)
                  /\ ev' = Append(ev, Ev("validate_insert", FALSE))
             ELSE /\ pc' = "validate_update"
                  /\ ev' = Append(ev, Ev("validate_insert", TRUE))
                  /\ UNCHANGED << status, reason >>
     ELSE /\ pc' = "validate_update"
          /\ UNCHANGED << status, reason, ev >>
  /\ UNCHANGED << now, store, protected,
                  schedFile, histFile, disk, runs, outcome, schedule, idx,
                  run_time, insert_file, update_file, backup_file, ids,
                  sched0, hist0 >>

\* main(), lines 343-358: validate the update file, extract the ids and name
\* the backup file
ValidateUpdate ==
  /\ pc = "validate_update"
  /\ IF update_file # NoPath /\ Exists(disk, update_file)
     THEN LET update_conf == first_target(script_meta.solr_update)
              unique_key == update_conf.key
              v == validate_solr_update_file(Content(disk, update_file),
                                             allowed_fields(update_conf), unique_key)
          IN IF unique_key = Absent
             THEN /\ Raise("solr_update config is missing 'key'")
                  /\ ev' = Append(ev, Ev("update_config", FALSE))
                  /\ UNCHANGED << ids, backup_file >>
             ELSE IF v.res # "ok"
             THEN /\ Raise(v.res)
                  /\ ev' = Append(ev, Ev("validate_update", FALSE))
                  /\ UNCHANGED << ids, backup_file >>
             ELSE /\ ids' = ExtractIds(v.docs, unique_key)
                  /\ backup_file' = Path("backup", Date(run_time), script_name)
                  /\ ev' = Append(ev, Ev("validate_update", TRUE))
                  /\ pc' = "backup"
                  /\ UNCHANGED << status, reason >>
     ELSE /\ pc' = "commit_insert"
          /\ UNCHANGED << status, reason, ev, ids, backup_file >>
  /\ UNCHANGED << now, store, protected,
                  schedFile, histFile, disk, runs, outcome, schedule, idx,
                  run_time, insert_file, update_file, sched0, hist0 >>

\* Backup whose failed fetch is not raised (no raise_for_status)
Backup_ContinuesOnError ==
  /\ pc = "backup"
  /\ LET update_conf == first_target(script_meta.solr_update)
         q == backup_query(update_conf.key, ids)
     IN \E fetched \in BOOLEAN :
          /\ disk' = WriteFile(disk, backup_file,
                               IF fetched THEN Snapshot(q, store) ELSE Batch(<<>>))
          /\ ev' = Append(ev, EvIds("backup", fetched, update_conf.core_name,
                                    q.terms, q.rows))
          /\ pc' = "commit_insert"
          /\ UNCHANGED << status, reason >>
  /\ UNCHANGED << now, store, protected,
                  schedFile, histFile, runs, outcome, schedule, idx,
                  run_time, insert_file, update_file, backup_file, ids,
                  sched0, hist0 >>

\* backup_solr_docs (lines 223-248) as called at line 359: one POST of one
\* query; a failed request raises, a successful one is written to backup_file
Backup ==
  /\ pc = "backup"
  /\ LET update_conf == first_target(script_meta.solr_update)
         q == backup_query(update_conf.key, ids)
     IN \E fetched \in BOOLEAN :
          /\ ev' = Append(ev, EvIds("backup", fetched, update_conf.core_name,
                                    q.terms, q.rows))
          /\ IF fetched
             THEN /\ disk' = WriteFile(disk, backup_file, Snapshot(q, store))
                  /\ pc' = "commit_insert"
                  /\ UNCHANGED << status, reason >>
             ELSE /\ Raise("Backup failed")
                  /\ disk' = disk
  /\ UNCHANGED << now, store, protected,
                  schedFile, histFile, runs, outcome, schedule, idx,
                  run_time, insert_file, update_file, backup_file, ids,
                  sched0, hist0 >>

\* the commit switch with the default turned on
CommitEnabled_DefaultTrue(sched) == Truthy(sched.settings.commit_solr, TRUE)

\* main(), line 364: settings.get("commit_solr", False), settings being the
\* object read from the loaded schedule at line 294
CommitEnabled(sched) == Truthy(sched.settings.commit_solr, FALSE)

\* main(), lines 364-367 and 372-373: the commit gate and the insert commit
\* (commit_solr_changes, lines 251-284, in insert mode); a commit tool that
\* exits 0 has applied the batch
CommitInsert ==
  /\ pc = "commit_insert"
  /\ IF CommitEnabled(schedule)
     THEN IF insert_file # NoPath /\ Exists(disk, insert_file)
          THEN \E tool_ok \in BOOLEAN :
                 /\ ev' = Append(ev, EvCore("commit_insert", tool_ok,
                        first_target(script_meta.solr_insert).core_name))
                 /\ IF tool_ok
                    THEN /\ store' = Applied(store, "insert")
                         /\ pc' = "commit_update"
                         /\ UNCHANGED << status, reason >>
                    ELSE Raise("Commit failed") /\ UNCHANGED store
          ELSE /\ pc' = "commit_update"
               /\ UNCHANGED << status, reason, ev, store >>
     ELSE /\ pc' = "advance"
          /\ UNCHANGED << status, reason, ev, store >>
  /\ UNCHANGED << now, schedFile, histFile, disk, runs, outcome, schedule, idx,
                  run_time, insert_file, update_file, backup_file, ids,
                  protected, sched0, hist0 >>

\* main(), lines 369-371: the update commit (commit_solr_changes in update mode)
CommitUpdate ==
  /\ pc = "commit_update"
  /\ IF update_file # NoPath /\ Exists(disk, update_file)
     THEN \E tool_ok \in BOOLEAN :
            /\ ev' = Append(ev, EvIds("commit_update", tool_ok,
                 first_target(script_meta.solr_update).core_name,
                 ExtractIds(Content(disk, update_file).docs,
                            first_target(script_meta.solr_update).key), 0))
            /\ IF tool_ok
               THEN /\ store' = Applied(store, "update")
                    /\ protected' = protected \cup
                         {f \in disk : f.path = backup_file}
                    /\ pc' = "advance"
                    /\ UNCHANGED << status, reason >>
               ELSE Raise("Commit failed") /\ UNCHANGED << store, protected >>
     ELSE /\ pc' = "advance"
          /\ UNCHANGED << status, reason, ev, store, protected >>
  /\ UNCHANGED << now, schedFile, histFile, disk, runs, outcome, schedule, idx,
                  run_time, insert_file, update_file, backup_file, ids,
                  sched0, hist0 >>

\* Advance that marks the job a success before the schedule is saved and
\* keeps the mark when the save fails
Advance_SuccessBeforeSave ==
  /\ pc = "advance"
  /\ schedule' = update_run_date(script_name, schedule, Date(run_time))
  /\ \E saved \in BOOLEAN :
       IF saved
       THEN /\ schedFile' = schedule'
            /\ status' = "success"
            /\ ev' = Append(ev, Ev("save", TRUE))
            /\ pc' = "finally"
            /\ UNCHANGED reason
       ELSE /\ status' = "success"
            /\ ev' = Append(ev, Ev("save", FALSE))
            /\ pc' = "finally"
            /\ UNCHANGED << schedFile, reason >>
  /\ UNCHANGED << now, store, protected,
                  histFile, disk, runs, outcome, idx, run_time,
                  insert_file, update_file, backup_file, ids, sched0, hist0 >>

\* main(), lines 375-376: update_run_date (lines 89-93) sets last_run in the
\* loaded schedule and saves it (save_schedule, lines 69-71); the write may fail
Advance ==
  /\ pc = "advance"
  /\ schedule' = update_run_date(script_name, schedule, Date(run_time))
  /\ \E saved \in BOOLEAN :
       IF saved
       THEN /\ schedFile' = schedule'
            /\ status' = "success"
            /\ ev' = Append(ev, Ev("save", TRUE))
            /\ pc' = "finally"
            /\ UNCHANGED reason
       ELSE /\ Raise("Cannot write schedule file")
            /\ ev' = Append(ev, Ev("save", FALSE))
            /\ UNCHANGED schedFile
  /\ UNCHANGED << now, store, protected,
                  histFile, disk, runs, outcome, idx, run_time,
                  insert_file, update_file, backup_file, ids, sched0, hist0 >>

\* the Run Record built at lines 385-393
RunRecord ==
  [ script |-> script_name, run_time |-> run_time, status |-> status,
    reason |-> reason, insert_file |-> insert_file, update_file |-> update_file,
    backup_file |-> backup_file ]

\* main(), lines 383-393: the finally block appends the Run Record
\* (append_run_history, lines 42-52); an exception raised there (the file
\* cannot be written, or it holds JSON that is not an array and has no append)
\* leaves main()
Finally ==
  /\ pc = "finally"
  /\ \E appended \in {b \in BOOLEAN : histFile.kind = "object" => ~b} :
       IF appended
       THEN /\ histFile' = append_run_history(histFile, RunRecord)
            /\ pc' = "loop"
            /\ idx' = idx + 1
            /\ UNCHANGED << outcome, locals, ev >>
       ELSE /\ Exit("crashed")
            /\ ev' = <<>>
            /\ UNCHANGED histFile
  /\ UNCHANGED << now, store, protected,
                  schedFile, disk, runs, schedule, sched0, hist0 >>

Next ==
  \/ Tick
  \/ StartRun
  \/ BeginJob
  \/ Gate
  \/ ExecuteScript
  \/ ValidateInsert
  \/ ValidateUpdate
  \/ Backup
  \/ CommitInsert
  \/ CommitUpdate
  \/ Advance
  \/ Finally
  \/ EndRun

Spec == Init /\ [][Next]_vars

\* ------------------------------------------- the scheduling policy alone
\* should_run applied once to a descriptor and a clock time drawn from bounded
\* sets; the verdict is left in status ("run" / "wait") and reason.
PolicyMetas ==
  [ script_file : {"run.sh"}, last_run : 0..MaxLastRun,
    interval_days : 0..MaxIntervalDays, force_run : Flags, disabled : {"false"},
    solr_insert : {<<>>}, solr_update : {<<>>} ]

PolicyInit ==
  /\ now \in 0..((MaxLastRun + MaxIntervalDays) * TicksPerDay + 1)
  /\ \E m \in PolicyMetas :
       schedFile = [kind |-> "json", settings |-> [commit_solr |-> "false"],
                    names |-> <<"a">>,
                    scripts |-> [j \in {"a"} |-> m]]
  /\ histFile \in HistFiles
  /\ disk = {}
  /\ store = EmptyStore
  /\ protected = {}
  /\ pc = "policy"
  /\ runs = 0
  /\ outcome = "not run"
  /\ schedule = schedFile
  /\ idx = 1
  /\ run_time = now
  /\ insert_file = NoPath
  /\ update_file = NoPath
  /\ backup_file = NoPath
  /\ status = "skipped"
  /\ reason = Reason("not scheduled")
  /\ ids = <<>>
  /\ ev = <<>>
  /\ sched0 = schedFile
  /\ hist0 = histFile

\* main(), line 322: should_execute, reason = should_run(script_meta)
CallShouldRun ==
  /\ pc = "policy"
  /\ LET r == should_run(script_meta, now)
     IN /\ status' = IF r.run THEN "run" ELSE "wait"
        /\ reason' = r.reason
  /\ pc' = "policy_done"
  /\ UNCHANGED << now, store, protected,
                  schedFile, histFile, disk, runs, outcome, schedule, idx,
                  run_time, insert_file, update_file, backup_file, ids, ev,
                  sched0, hist0 >>

PolicyNext == CallShouldRun

SpecShouldRun == PolicyInit /\ [][PolicyNext]_vars

\* --------------------------------------------------- the validators alone
\* main() as it stands at line 336 or 343 in the first iteration of a run
\* over the one job "a": the script has just returned, leaving `files`
AfterScript(p, sched, files) ==
  /\ now = 0
  /\ schedFile = sched
  /\ histFile \in HistFiles
  /\ disk = files
  /\ store = EmptyStore
  /\ protected = {}
  /\ pc = p
  /\ runs = 1
  /\ outcome = "running"
  /\ schedule = sched
  /\ idx = 1
  /\ run_time = 0
  /\ backup_file = NoPath
  /\ status = "skipped"
  /\ reason = Reason("Forced execution")
  /\ ids = <<>>
  /\ ev = << Ev("should_run", TRUE),
             EvScript(TRUE, 0, {f.path.kind : f \in files}, {}) >>
  /\ sched0 = sched
  /\ hist0 = histFile

\* a schedule of the one job "a" with the given target lists
OneJob(insert_confs, update_confs) ==
  [kind |-> "json", settings |-> [commit_solr |-> "false"], names |-> <<"a">>,
   scripts |-> [j \in {"a"} |->
     [script_file |-> "run.sh", last_run |-> 0, interval_days |-> 1,
      force_run |-> "true", disabled |-> "false",
      solr_insert |-> insert_confs, solr_update |-> update_confs]]]

\* sequences over S of length at most n
RECURSIVE SeqsUpTo(_, _)
SeqsUpTo(S, n) ==
  IF n = 0 THEN {<<>>}
  ELSE LET shorter == SeqsUpTo(S, n - 1)
       IN shorter \cup {Append(q, x) : q \in shorter, x \in S}

\* the elements an insert file is made of here
InsertDocs ==
  { Scalar,
    Doc(<<Field("id", Plain("1")), Field("name", Plain("x"))>>),
    Doc(<<Field("name", Plain("x"))>>),
    Doc(<<Field("id", Plain("1")), Field("count", Obj({"inc"}))>>),
    Doc(<<Field("id", Obj({"set"}))>>),
    Doc(<<Field("id", Plain("1")), Field("count", Obj({"value"}))>>),
    Doc(<<Field("id", Plain("1")), Field("count", Obj({"value", "remove"}))>>),
    Doc(<<Field("count", Obj({"add"}))>>) }
InsertInputs == {NotArray} \cup {Batch(q) : q \in SeqsUpTo(InsertDocs, MaxDocs)}

InsertInit ==
  /\ \E unique_key \in {"id", "name"}, data \in InsertInputs :
       AfterScript("validate_insert",
                   OneJob(<<Target("core_i", unique_key, {})>>, <<>>),
                   {[path |-> Path("insert", 0, "a"), data |-> data]})
  /\ insert_file = Path("insert", 0, "a")
  /\ update_file = NoPath

InsertNext == ValidateInsert

SpecValidateInsert == InsertInit /\ [][InsertNext]_vars

\* the elements an update file is made of here
UpdateDocs ==
  { Scalar,
    Doc(<<Field("id", Plain("1")), Field("count", Obj({"set"}))>>),
    Doc(<<Field("id", Plain("2")), Field("count", Obj({"add", "value"}))>>),
    Doc(<<Field("id", Plain("3"))>>),
    Doc(<<Field("id", Obj({"set"}))>>),
    Doc(<<Field("id", Plain("1")), Field("other", Obj({"set"}))>>),
    Doc(<<Field("id", Plain("1")), Field("count", Plain("5"))>>),
    Doc(<<Field("id", Plain("1")), Field("count", Obj({"value"}))>>),
    Doc(<<Field("id", Plain("1")), Field("count", Plain("5")),
          Field("other", Obj({"inc"}))>>),
    Doc(<<Field("count", Obj({"set"}))>>) }
UpdateInputs == {NotArray} \cup {Batch(q) : q \in SeqsUpTo(UpdateDocs, MaxDocs)}
\* the update targets: a whitelist, an empty whitelist, no whitelist
UpdateTargets ==
  { Target("core_u", "id", {"count"}), Target("core_u", "id", {}),
    TargetNoFields("core_u", "id") }

UpdateInit ==
  /\ \E update_conf \in UpdateTargets, data \in UpdateInputs :
       AfterScript("validate_update", OneJob(<<>>, <<update_conf>>),
                   {[path |-> Path("update", 0, "a"), data |-> data]})
  /\ insert_file = NoPath
  /\ update_file = Path("update", 0, "a")

UpdateNext == ValidateUpdate

SpecValidateUpdate == UpdateInit /\ [][UpdateNext]_vars

\* ----------------------------------------------------- the run history
\* Runs of the orchestrator over jobs that are skipped or not due, starting
\* from a history file that is missing, is not JSON, holds a JSON object, or
\* holds an array of earlier Run Records.
OldRecords ==
  { [script |-> "a", run_time |-> 0, status |-> st, reason |-> Reason("Forced execution"),
     insert_file |-> NoPath, update_file |-> NoPath, backup_file |-> NoPath] :
    st \in {"success", "failure"} }
HistoryFiles ==
  { [kind |-> k, entries |-> <<>>] : k \in {"missing", "corrupt", "object"} }
    \cup { [kind |-> "list", entries |-> q] : q \in SeqsUpTo(OldRecords, MaxHist) }

\* descriptors of jobs that do not run: disabled, without script, not due
IdleMetas ==
  { m \in AllMetas :
      /\ m.force_run = "false"
      /\ m.solr_insert = <<>> /\ m.solr_update = <<>>
      /\ m.disabled \in {"true", "false"}
      /\ m.script_file \in {"", "run.sh"}
      /\ m.disabled = "true" => m.script_file = "run.sh" }

HistoryInit ==
  /\ now = 0
  /\ \E l \in JobLists :
       \E s \in [{l[i] : i \in 1..Len(l)} -> IdleMetas] :
         schedFile = [kind |-> "json", settings |-> [commit_solr |-> "false"],
                      names |-> l, scripts |-> s]
  /\ histFile \in HistoryFiles
  /\ disk = {}
  /\ store = EmptyStore
  /\ protected = {}
  /\ pc = "idle"
  /\ runs = 0
  /\ outcome = "not run"
  /\ schedule = schedFile
  /\ idx = 1
  /\ run_time = 0
  /\ insert_file = NoPath
  /\ update_file = NoPath
  /\ backup_file = NoPath
  /\ status = "skipped"
  /\ reason = Reason("not scheduled")
  /\ ids = <<>>
  /\ ev = <<>>
  /\ sched0 = schedFile
  /\ hist0 = histFile

HistoryNext ==
  \/ StartRun
  \/ BeginJob
  \/ Gate
  \/ Finally
  \/ EndRun

SpecHistory == HistoryInit /\ [][HistoryNext]_vars

\* ------------------------------------------------------------ the claims
\* positions of the process inside one job iteration
JobPcs == { "gate", "execute", "validate_insert", "validate_update", "backup",
            "commit_insert", "commit_update", "advance", "finally" }

\* the Run Records appended since the current (or last) run started
NewEntries ==
  SubSeq(HistEntries(histFile), Len(HistEntries(hist0)) + 1,
         Len(HistEntries(histFile)))

\* the file of a path local exists
Produced(f) == f # NoPath /\ Exists(disk, f)

\* event kind k happened, successfully, before position n of ev
OkBefore(k, n) == \E j \in 1..(n - 1) : ev[j].kind = k /\ ev[j].ok

\* C1: an update commit is invoked only after a successful backup, earlier in
\* the same job iteration, for the ids of the batch being committed; after a
\* failed backup the job commits no update, is recorded as a failure and its
\* persisted last_run is the one the run started with.
C1_BackupBeforeUpdateCommit ==
  /\ \A k \in 1..Len(ev) :
       ev[k].kind = "commit_update" =>
         \E j \in 1..(k - 1) :
           ev[j].kind = "backup" /\ ev[j].ok /\ ev[j].ids = ev[k].ids
  /\ (Did("backup") /\ ~DidOk("backup")) =>
       /\ ~Did("commit_update")
       /\ ~Did("save")
       /\ status = "failure"
       /\ pc = "loop" =>
            /\ NewEntries[Len(NewEntries)].script = schedule.names[idx - 1]
            /\ NewEntries[Len(NewEntries)].status = "failure"
  /\ \A i \in 1..Len(NewEntries) :
       NewEntries[i].reason.msg = "Backup failed" =>
         /\ NewEntries[i].status = "failure"
         /\ schedFile.scripts[NewEntries[i].script].last_run
              = sched0.scripts[NewEntries[i].script].last_run

\* C1 witness: an update commit has succeeded after its backup
C1_Witness == pc = "advance" /\ DidOk("backup") /\ DidOk("commit_update")

\* C2: while the loop is at job number idx the run has appended exactly one
\* Run Record for each of the idx-1 jobs before it, in order, whatever their
\* outcome; a run that completes the loop has grown the history by exactly
\* the number of jobs.  (An iteration whose append raises does not end: the
\* exception leaves main(), see C4.)
C2_OneRecordPerJob ==
  /\ pc \in JobPcs \cup {"loop"} =>
       /\ Len(NewEntries) = idx - 1
       /\ \A i \in 1..Len(NewEntries) : NewEntries[i].script = schedule.names[i]
  /\ (pc = "idle" /\ outcome = "complete") =>
       /\ Len(HistEntries(histFile))
            = Len(HistEntries(hist0)) + Len(sched0.names)
       /\ \A i \in 1..Len(NewEntries) : NewEntries[i].script = sched0.names[i]
       /\ \A i \in 1..Len(HistEntries(hist0)) :
            HistEntries(histFile)[i] = HistEntries(hist0)[i]

\* C2 witness: a complete run over two jobs, one skipped and one failed
C2_Witness ==
  /\ pc = "idle" /\ outcome = "complete" /\ Len(sched0.names) = 2
  /\ {NewEntries[i].status : i \in 1..Len(NewEntries)} = {"skipped", "failure"}

\* the Run Record this run appended for job j (a complete run has exactly one)
RecordOf(j) ==
  NewEntries[CHOOSE i \in 1..Len(NewEntries) : NewEntries[i].script = j]

\* C3: after a complete run the persisted last_run of a job recorded as
\* success is the date the job's iteration started, and the persisted last_run
\* of a job recorded as failure or skipped is the one the run started with.
C3_LastRunOnlyOnSuccess ==
  (pc = "idle" /\ outcome = "complete") =>
    \A j \in DOMAIN sched0.scripts :
      IF RecordOf(j).status = "success"
      THEN schedFile.scripts[j].last_run = Date(RecordOf(j).run_time)
      ELSE schedFile.scripts[j].last_run = sched0.scripts[j].last_run

\* C4: no error of a job's pipeline leaves main(): a run that has started
\* ends by exhausting the job loop.
C4_NoErrorAbortsBatch == outcome # "crashed"

\* the order of the phases of one job iteration
Rank(kind) ==
  CASE kind = "should_run" -> 0
    [] kind \in {"script", "script_missing"} -> 1
    [] kind \in {"insert_config", "validate_insert"} -> 2
    [] kind \in {"update_config", "validate_update"} -> 3
    [] kind = "backup" -> 4
    [] kind = "commit_insert" -> 5
    [] kind = "commit_update" -> 6
    [] kind = "save" -> 7

\* C5: the phases of a job iteration happen in the order script, insert
\* validation, update validation, backup, insert commit, update commit,
\* last_run advance, each at most once; a phase that fails is the last one;
\* a commit is invoked only after every produced file was validated and the
\* update batch, when produced, was backed up; the update commit follows the
\* insert commit of a produced insert file.
C5_PhaseOrder ==
  /\ \A i, j \in 1..Len(ev) : i < j => Rank(ev[i].kind) < Rank(ev[j].kind)
  /\ \A i \in 1..(Len(ev) - 1) : ev[i].ok
  /\ (ev # <<>> /\ ~ev[Len(ev)].ok) => pc \in {"finally", "loop"} /\ status = "failure"
  /\ \A k \in 1..Len(ev) :
       ev[k].kind \in {"commit_insert", "commit_update"} =>
         /\ OkBefore("script", k)
         /\ Produced(insert_file) => OkBefore("validate_insert", k)
         /\ Produced(update_file) =>
              OkBefore("validate_update", k) /\ OkBefore("backup", k)
         /\ (ev[k].kind = "commit_update" /\ Produced(insert_file)) =>
              OkBefore("commit_insert", k)
  /\ \A k \in 1..Len(ev) :
       ev[k].kind = "save" =>
         /\ OkBefore("script", k)
         /\ Produced(insert_file) => OkBefore("validate_insert", k)
         /\ Produced(update_file) => OkBefore("backup", k)

\* C5 witness: a job iteration that went through every phase
C5_Witness ==
  /\ pc = "finally"
  /\ [i \in 1..Len(ev) |-> ev[i].kind]
       = << "should_run", "script", "validate_insert", "validate_update",
            "backup", "commit_insert", "commit_update", "save" >>
  /\ \A i \in 1..Len(ev) : ev[i].ok

\* C6: in a run whose schedule has commit_solr false or absent no job invokes
\* the commit tool, while the script, the validation of each produced file and
\* the backup have taken place when the job reaches the last_run advance; the
\* settings the jobs consult are those loaded when the run started.
C6_NoCommitWhenDisabled ==
  /\ pc \in JobPcs \cup {"loop"} => schedule.settings = sched0.settings
  /\ sched0.settings.commit_solr \in {"false", Absent} =>
       /\ ~Did("commit_insert")
       /\ ~Did("commit_update")
       /\ pc = "advance" =>
            /\ DidOk("script")
            /\ Produced(insert_file) => DidOk("validate_insert")
            /\ Produced(update_file) => DidOk("validate_update") /\ DidOk("backup")

\* C6 witness: commit_solr is absent and a job validated both files and
\* backed up without committing
C6_Witness ==
  /\ sched0.settings.commit_solr = Absent
  /\ pc = "advance"
  /\ DidOk("validate_insert") /\ DidOk("backup")

\* C7: a job that an earlier run executed successfully on account of its
\* force flag is executed by this run only when it is due.
C7_ForceRunOneShot ==
  pc = "execute" =>
    ( (\E i \in 1..Len(HistEntries(hist0)) :
          /\ HistEntries(hist0)[i].script = script_name
          /\ HistEntries(hist0)[i].status = "success"
          /\ HistEntries(hist0)[i].reason.msg = "Forced execution")
      => now >= get_next_run_date(script_meta) )

\* a descriptor without its last_run
Frame(meta) == [meta EXCEPT !.last_run = 0]

\* C8: the persisted schedule differs from the one the run started with only
\* in the last_run of jobs that the run recorded as success: job names,
\* settings and every other descriptor field are the same.
C8_OnlyLastRunOfSuccessfulJobs ==
  /\ schedFile.names = sched0.names
  /\ schedFile.settings = sched0.settings
  /\ DOMAIN schedFile.scripts = DOMAIN sched0.scripts
  /\ \A j \in DOMAIN sched0.scripts :
       Frame(schedFile.scripts[j]) = Frame(sched0.scripts[j])
  /\ (pc = "idle" /\ outcome = "complete") =>
       \A j \in DOMAIN sched0.scripts :
         schedFile.scripts[j].last_run # sched0.scripts[j].last_run =>
           RecordOf(j).status = "success"

\* C9: should_run says run for every descriptor with force_run true; with
\* force_run false or absent it says run exactly when the clock has reached
\* midnight of day last_run + interval_days; the call changes nothing else.
C9_ShouldRunPolicy ==
  pc = "policy_done" =>
    LET m == sched0.scripts["a"]
    IN /\ m.force_run = "true" => status = "run"
       /\ m.force_run \in {"false", Absent} =>
            (status = "run" <=> Date(now) >= m.last_run + m.interval_days)
       /\ schedFile = sched0 /\ schedule = sched0

\* C9 witness: an unforced descriptor run at exactly its next-run instant
C9_Witness ==
  /\ pc = "policy_done"
  /\ sched0.scripts["a"].force_run = Absent
  /\ sched0.scripts["a"].interval_days > 0
  /\ now = (sched0.scripts["a"].last_run + sched0.scripts["a"].interval_days)
             * TicksPerDay
  /\ status = "run"

\* C10: a job whose disabled flag is true or absent, or whose script_file is
\* missing or empty, does nothing in its iteration (no policy call, script,
\* validation, backup, commit or save), is recorded as skipped with the reason
\* and without files, and keeps its persisted last_run; the scheduling policy
\* is consulted only for enabled jobs that have a script_file.
C10_SkippedEarlyNeverRuns ==
  /\ pc \in JobPcs =>
       /\ SkippedEarly(script_meta) =>
            /\ ev = <<>>
            /\ pc \in {"gate", "finally"}
            /\ status = "skipped"
            /\ pc = "finally" =>
                 reason.msg = IF Truthy(script_meta.disabled, TRUE)
                              THEN "disabled" ELSE "no script_file"
       /\ Did("should_run") => ~SkippedEarly(script_meta)
  /\ \A i \in 1..Len(NewEntries) :
       SkippedEarly(sched0.scripts[NewEntries[i].script]) =>
         /\ NewEntries[i].status = "skipped"
         /\ NewEntries[i].reason.msg \in {"disabled", "no script_file"}
         /\ NewEntries[i].insert_file = NoPath
         /\ NewEntries[i].update_file = NoPath
         /\ NewEntries[i].backup_file = NoPath
         /\ schedFile.scripts[NewEntries[i].script].last_run
              = sched0.scripts[NewEntries[i].script].last_run

\* C10 witness: a job without a disabled flag was recorded as skipped while
\* another job of the run advanced its last_run
C10_Witness ==
  /\ \E i \in 1..Len(NewEntries) :
       /\ sched0.scripts[NewEntries[i].script].disabled = Absent
       /\ NewEntries[i].status = "skipped"
  /\ schedFile # sched0

\* the script event of the current job iteration
ScriptEv == ev[CHOOSE i \in 1..Len(ev) : ev[i].kind = "script"]

\* the output and log paths of the current job iteration
OutPath(kind) == Path(kind, Date(run_time), script_name)

\* what follows a non-zero exit whatever the cleanup achieves: the log file is
\* there, the failed script is the last thing the iteration did, the job is
\* recorded as a failure and its persisted last_run is the one the run
\* started with
FailedScriptFails ==
  /\ (pc = "finally" /\ Did("script") /\ ~DidOk("script")) =>
       Exists(disk, OutPath("log"))
  /\ (Did("script") /\ ~DidOk("script")) =>
       /\ ev[Len(ev)].kind = "script"
       /\ status = "failure"
       /\ insert_file = NoPath /\ update_file = NoPath /\ backup_file = NoPath
       /\ schedFile = sched0 \/ idx > 1
       /\ pc = "loop" =>
            /\ NewEntries[Len(NewEntries)].script = schedule.names[idx - 1]
            /\ NewEntries[Len(NewEntries)].status = "failure"
  /\ \A i \in 1..Len(NewEntries) :
       NewEntries[i].reason.msg = "Execution failed" =>
         /\ NewEntries[i].status = "failure"
         /\ schedFile.scripts[NewEntries[i].script].last_run
              = sched0.scripts[NewEntries[i].script].last_run

\* C11 as stated: after a non-zero exit of the script no insert or update file
\* exists at the job's output paths, the log file is kept, nothing of
\* validation, backup or commit is performed, the job is recorded as a failure
\* and its last_run is unchanged.
C11_FailedScriptRemovesFiles ==
  /\ FailedScriptFails
  /\ (pc = "finally" /\ Did("script") /\ ~DidOk("script")) =>
       /\ ~Exists(disk, OutPath("insert"))
       /\ ~Exists(disk, OutPath("update"))

\* C11 amended: after a non-zero exit of the script an insert or update file
\* exists at the job's output paths only when its removal was attempted and
\* failed; the rest as stated.
C11_FailedScriptCleansUp ==
  /\ FailedScriptFails
  /\ (pc = "finally" /\ Did("script") /\ ~DidOk("script")) =>
       \A k \in {"insert", "update"} :
         Exists(disk, OutPath(k)) <=> k \in ScriptEv.kept

\* C11 witness: the script wrote both files and exited non-zero, both were
\* removed and the failure is on record
C11_Witness ==
  /\ pc = "loop" /\ idx > 1
  /\ Did("script") /\ ~DidOk("script")
  /\ ScriptEv.wrote = {"insert", "update"}
  /\ ScriptEv.kept = {}
  /\ NewEntries[Len(NewEntries)].reason.msg = "Execution failed"

\* the value is an object holding one of the update operators
OperatorShaped(val) == val.isobj /\ val.keys \cap {"set", "add", "remove", "inc"} # {}

\* the element is acceptable to the insert check
InsertElementOk(d, key) ==
  /\ d.isobj
  /\ \E i \in 1..Len(d.fields) : d.fields[i].name = key
  /\ \A i \in 1..Len(d.fields) : ~OperatorShaped(d.fields[i].val)

\* the insert file handed to the validation and the key it is checked with
InsertInput == Content(disk, Path("insert", 0, "a"))
InsertKey == sched0.scripts["a"].solr_insert[1].key

\* C12: the insert validation accepts the file exactly when it is an array of
\* objects that all contain the unique key and have no operator-shaped field
\* value (the key field included); a non-array is rejected as InvalidFormat,
\* and otherwise the first unacceptable element decides: a non-object is
\* rejected, an object without the key as MissingKey, an object with the key
\* and an operator-shaped value as InvalidInsertShape.
C12_InsertValidation ==
  pc # "validate_insert" =>
    LET docs == InsertInput.docs
        accepted == pc = "validate_update" /\ status = "skipped"
        rejected(class) == pc = "finally" /\ status = "failure" /\ reason.msg = class
        bad == {i \in 1..Len(docs) : ~InsertElementOk(docs[i], InsertKey)}
        first == CHOOSE i \in bad : \A j \in bad : i <= j
    IN /\ accepted <=> (InsertInput.array /\ bad = {})
       /\ accepted \/ pc = "finally"
       /\ ~InsertInput.array => rejected("InvalidFormat")
       /\ (InsertInput.array /\ bad # {}) =>
            IF ~docs[first].isobj THEN rejected("InvalidFormat")
            ELSE IF \A i \in 1..Len(docs[first].fields) :
                       docs[first].fields[i].name # InsertKey
                 THEN rejected("MissingKey")
            ELSE rejected("InvalidInsertShape")
       /\ disk = {[path |-> Path("insert", 0, "a"), data |-> InsertInput]}

\* C12 witness: a two-element array whose first element is fine and whose
\* second has an operator-shaped unique key was rejected as InvalidInsertShape
C12_Witness ==
  /\ pc = "finally" /\ reason.msg = "InvalidInsertShape"
  /\ Len(InsertInput.docs) = 2
  /\ InsertElementOk(InsertInput.docs[1], InsertKey)
  /\ InsertInput.docs[2] = Doc(<<Field("id", Obj({"set"}))>>)

\* the update file handed to the validation, its whitelist and its key
UpdateInput == Content(disk, Path("update", 0, "a"))
Whitelist ==
  IF sched0.scripts["a"].solr_update[1].has_fields
  THEN sched0.scripts["a"].solr_update[1].fields ELSE {}
UpdateKey == sched0.scripts["a"].solr_update[1].key

\* the field is acceptable to the update check
UpdateFieldOk(f) ==
  f.name # UpdateKey => (f.name \in Whitelist /\ OperatorShaped(f.val))

\* the element is acceptable to the update check
UpdateElementOk(d) ==
  /\ d.isobj
  /\ \E i \in 1..Len(d.fields) : d.fields[i].name = UpdateKey
  /\ \A i \in 1..Len(d.fields) : UpdateFieldOk(d.fields[i])

\* C13: the update validation accepts the file exactly when it is an array of
\* objects that all contain the unique key and whose other fields are all in
\* the whitelist with an operator-shaped value; on acceptance the documents it
\* hands on are those of the file, in order (one id per document); otherwise
\* the first unacceptable element decides: without the key MissingKey, else
\* its first unacceptable field decides, UnexpectedField when it is outside the
\* whitelist (operator-shaped or not) and InvalidUpdateShape otherwise; with
\* an empty or absent whitelist a document with a non-key field is rejected.
C13_UpdateValidation ==
  pc # "validate_update" =>
    LET docs == UpdateInput.docs
        accepted == pc = "backup" /\ status = "skipped"
        rejected(class) == pc = "finally" /\ status = "failure" /\ reason.msg = class
        bad == {i \in 1..Len(docs) : ~UpdateElementOk(docs[i])}
        first == CHOOSE i \in bad : \A j \in bad : i <= j
        badf == {i \in 1..Len(docs[first].fields) :
                   ~UpdateFieldOk(docs[first].fields[i])}
        firstf == CHOOSE i \in badf : \A j \in badf : i <= j
    IN /\ accepted <=> (UpdateInput.array /\ bad = {})
       /\ accepted \/ pc = "finally"
       /\ accepted =>
            /\ Len(ids) = Len(docs)
            /\ \A i \in 1..Len(docs) :
                 \E k \in 1..Len(docs[i].fields) :
                   /\ docs[i].fields[k].name = UpdateKey
                   /\ ids[i] = docs[i].fields[k].val.v
       /\ ~UpdateInput.array => rejected("InvalidFormat")
       /\ (UpdateInput.array /\ bad # {}) =>
            IF ~docs[first].isobj THEN rejected("InvalidFormat")
            ELSE IF \A i \in 1..Len(docs[first].fields) :
                       docs[first].fields[i].name # UpdateKey
                 THEN rejected("MissingKey")
            ELSE IF docs[first].fields[firstf].name \notin Whitelist
                 THEN rejected("UnexpectedField")
            ELSE rejected("InvalidUpdateShape")
       /\ (Whitelist = {} /\ UpdateInput.array /\
             \E i \in 1..Len(docs) : docs[i].isobj /\
               \E k \in 1..Len(docs[i].fields) : docs[i].fields[k].name # UpdateKey)
            => pc = "finally"
       /\ disk = {[path |-> Path("update", 0, "a"), data |-> UpdateInput]}

\* C13 witness: with whitelist {count}, an array whose second element has the
\* operator-shaped field `other` was rejected as UnexpectedField
C13_Witness ==
  /\ pc = "finally" /\ reason.msg = "UnexpectedField"
  /\ Whitelist = {"count"}
  /\ Len(UpdateInput.docs) = 2
  /\ UpdateElementOk(UpdateInput.docs[1])
  /\ UpdateInput.docs[2]
       = Doc(<<Field("id", Plain("1")), Field("other", Obj({"set"}))>>)

\* C13 second witness: a two-document batch was accepted with its ids in order
C13_AcceptedWitness ==
  /\ pc = "backup" /\ ids = <<"2", "1">>

\* the value of the key field of a document
KeyOf(d, key) ==
  d.fields[CHOOSE k \in 1..Len(d.fields) : d.fields[k].name = key].val.v

\* C14: a job iteration backs up at most once, and exactly once when its
\* update batch passed validation, before any commit; the backup is one query
\* to the first update target's core for exactly the unique-key values of the
\* documents of the batch, in batch order, with rows equal to their number; a
\* successful backup leaves the returned documents (one per id) in the backup
\* file; a failed one ends the iteration as a failure.
C14_BackupOnceWithBatchIds ==
  pc \in JobPcs =>
    LET backups == {i \in 1..Len(ev) : ev[i].kind = "backup"}
        target == script_meta.solr_update[1]
    IN /\ Cardinality(backups) <= 1
       /\ (DidOk("validate_update") /\ pc # "backup") => Cardinality(backups) = 1
       /\ backups # {} => DidOk("validate_update")
       /\ \A i \in backups :
            LET docs == Content(disk, update_file).docs
            IN /\ \A j \in 1..(i - 1) :
                    ev[j].kind \notin {"commit_insert", "commit_update", "save"}
               /\ Len(ev[i].ids) = Len(docs)
               /\ \A k \in 1..Len(docs) : ev[i].ids[k] = KeyOf(docs[k], target.key)
               /\ ev[i].rows = Len(docs)
               /\ ev[i].core = target.core_name
               /\ ev[i].ok =>
                    /\ Exists(disk, backup_file)
                    /\ Content(disk, backup_file).array
                    /\ Len(Content(disk, backup_file).docs) = Len(docs)
                    /\ \A k \in 1..Len(docs) :
                         Content(disk, backup_file).docs[k].fields[1]
                           = Field(target.key, Plain(KeyOf(docs[k], target.key)))
               /\ ~ev[i].ok =>
                    i = Len(ev) /\ status = "failure" /\ pc = "finally"

\* C14 witness: a two-document batch was backed up and the job is about to
\* commit
C14_Witness ==
  /\ pc = "commit_insert"
  /\ DidOk("backup")
  /\ ev[Len(ev)].ids = <<"1", "2">>
  /\ Len(Content(disk, backup_file).docs) = 2

\* C15: the step in which a job iteration appends its Run Record leaves the
\* history file holding the array it held (the empty array when the file was
\* missing or was not JSON) followed by that record, also when an equal record
\* is already there; no other step of the orchestrator changes the file.
C15_HistoryAppendOnly ==
  [][ IF pc = "finally" /\ pc' = "loop"
      THEN /\ histFile.kind \in {"list", "missing", "corrupt"}
           /\ histFile'.kind = "list"
           /\ Len(histFile'.entries)
                = (IF histFile.kind = "list" THEN Len(histFile.entries) ELSE 0) + 1
           /\ histFile'.entries[Len(histFile'.entries)] = RunRecord
           /\ histFile.kind = "list" =>
                \A i \in 1..Len(histFile.entries) :
                  histFile'.entries[i] = histFile.entries[i]
      ELSE histFile' = histFile ]_vars

\* C15 witness: two runs appended the same record to a history of one record
C15_Witness ==
  /\ histFile.kind = "list" /\ Len(histFile.entries) = 3
  /\ histFile.entries[1] \in OldRecords
  /\ histFile.entries[2] = histFile.entries[3]

\* C15 second witness: a file that was not JSON now holds one record
C15_CorruptWitness ==
  /\ hist0.kind = "corrupt" /\ histFile.kind = "list" /\ Len(histFile.entries) = 1

\* C16: the Run Record a job iteration has just appended names an insert or
\* update file only when the script wrote that file in this iteration, and a
\* backup file only when the backup of this iteration succeeded.
C16_RecordNamesProducedFiles ==
  (pc = "loop" /\ idx > 1) =>
    LET r == NewEntries[Len(NewEntries)]
    IN /\ r.insert_file # NoPath => (Did("script") /\ "insert" \in ScriptEv.wrote)
       /\ r.update_file # NoPath => (Did("script") /\ "update" \in ScriptEv.wrote)
       /\ r.backup_file # NoPath => DidOk("backup")

\* C17: with a schedule file that is missing, is not JSON, holds the empty
\* mapping or has no scripts, a run returns before the job loop ("no schedule"
\* for the first three, "no scripts" for the last) without an error: the
\* process is never inside the loop, nothing is executed or written to the
\* output and backup directories, nothing is committed to the store, and the
\* history and schedule files are unchanged.
C17_NothingToRun ==
  (sched0.kind \in {"missing", "malformed", "empty"} \/ sched0.names = <<>>) =>
    /\ pc = "idle"
    /\ runs > 0 =>
         outcome = IF sched0.kind = "json" THEN "no scripts" ELSE "no schedule"
    /\ ev = <<>>
    /\ disk = {}
    /\ store = EmptyStore
    /\ histFile = hist0
    /\ schedFile = sched0

\* C17 witness: two runs over a schedule file that is not JSON
C17_Witness ==
  /\ sched0.kind = "malformed" /\ runs = 2 /\ outcome = "no schedule"

\* C18: whatever a job iteration validates, backs up for or commits was
\* written by the script invocation of that same iteration: an insert file
\* for an insert validation or commit, an update file for an update
\* validation, backup or commit.
C18_FreshOutputDirectory ==
  \A k \in 1..Len(ev) :
    /\ ev[k].kind \in {"validate_insert", "commit_insert"} =>
         "insert" \in ScriptEv.wrote
    /\ ev[k].kind \in {"validate_update", "backup", "commit_update"} =>
         "update" \in ScriptEv.wrote

\* the script is invoked with the last_run persisted when the run started
SinceIsPersistedLastRun ==
  (pc \in JobPcs /\ Did("script")) =>
    ScriptEv.since = sched0.scripts[script_name].last_run

\* a job found not due was not recorded as a failure by the run before
DueAgainAfterFailure ==
  (pc = "finally" /\ status = "skipped" /\ reason.msg = "next run") =>
    LET mine == {i \in 1..Len(HistEntries(hist0)) :
                   HistEntries(hist0)[i].script = script_name}
    IN \A i \in mine :
         (\A j \in mine : j <= i) => HistEntries(hist0)[i].status # "failure"

\* C19: the script is invoked with the last_run that was persisted when the
\* run started; a run leaves the persisted last_run of every job it records as
\* a failure as it found it, so that the next run finds the job due again and
\* invokes its script with the same since date.
C19_FailedRunKeepsSince ==
  /\ SinceIsPersistedLastRun
  /\ DueAgainAfterFailure
  /\ (pc = "idle" /\ outcome = "complete") =>
       \A i \in 1..Len(NewEntries) :
         NewEntries[i].status = "failure" =>
           schedFile.scripts[NewEntries[i].script].last_run
             = sched0.scripts[NewEntries[i].script].last_run

\* C20: a job iteration uses the first target of each list and no other: a
\* backup or commit addresses the first target's core, and a first target
\* with a key is never reported as lacking one; once the script has returned
\* and a produced file's first target lacks `key`, the iteration has failed on
\* that configuration without validating, backing up or committing that file
\* and without any commit or last_run advance; the job is recorded as a
\* failure with its persisted last_run unchanged and the loop goes on.
C20_FirstTargetOnly ==
  /\ pc \in JobPcs =>
       /\ \A k \in 1..Len(ev) :
            /\ ev[k].kind = "commit_insert" =>
                 ev[k].core = script_meta.solr_insert[1].core_name
            /\ ev[k].kind \in {"backup", "commit_update"} =>
                 ev[k].core = script_meta.solr_update[1].core_name
            /\ ev[k].kind = "insert_config" => script_meta.solr_insert[1].key = Absent
            /\ ev[k].kind = "update_config" => script_meta.solr_update[1].key = Absent
       /\ ( DidOk("script") /\ pc # "validate_insert" /\ Produced(insert_file)
            /\ script_meta.solr_insert[1].key = Absent ) =>
            /\ pc = "finally" /\ status = "failure"
            /\ [i \in 1..Len(ev) |-> ev[i].kind]
                 = << "should_run", "script", "insert_config" >>
       /\ ( DidOk("script") /\ pc \notin {"validate_insert", "validate_update"}
            /\ Produced(update_file) /\ script_meta.solr_update[1].key = Absent
            /\ ~Did("insert_config") /\ (Did("validate_insert") => DidOk("validate_insert")) ) =>
            /\ pc = "finally" /\ status = "failure"
            /\ ev[Len(ev)].kind = "update_config"
            /\ \A k \in 1..Len(ev) :
                 ev[k].kind \notin {"validate_update", "backup", "commit_insert",
                                    "commit_update", "save"}
  /\ (pc = "loop" /\ (Did("insert_config") \/ Did("update_config"))) =>
       /\ idx = Len(NewEntries) + 1
       /\ NewEntries[Len(NewEntries)].status = "failure"
  /\ \A i \in 1..Len(NewEntries) :
       NewEntries[i].reason.msg \in {"solr_insert config is missing 'key'",
                                     "solr_update config is missing 'key'"} =>
         /\ NewEntries[i].status = "failure"
         /\ schedFile.scripts[NewEntries[i].script].last_run
              = sched0.scripts[NewEntries[i].script].last_run

\* C20 witness: the update file was produced, the first update target lacks
\* `key` while the second has one, and the job failed after validating its
\* insert file
C20_Witness ==
  /\ pc = "finally" /\ status = "failure"
  /\ ev[Len(ev)].kind = "update_config"
  /\ DidOk("validate_insert")
  /\ script_meta.solr_update[2].key = "id"

\* C20 second witness: a commit went to the first update target's core while
\* a second target is configured
C20_CommitWitness ==
  /\ pc = "advance" /\ DidOk("commit_update")
  /\ ev[Len(ev)].core = "core_u"
  /\ Len(script_meta.solr_update) = 2

\* the Run Record the job iteration has just appended, and its job
LastRecord == NewEntries[Len(NewEntries)]

\* everything a successful run of job started at start consists of, read off
\* the events of the iteration: the script exited 0, each file it wrote was
\* validated, an update file it wrote was backed up and the backup file is
\* there, with commit_solr true each file it wrote was committed, and the
\* schedule file was saved with the job's last_run at the run's start date
AllPhasesDone(job, start) ==
  /\ DidOk("script")
  /\ "insert" \in ScriptEv.wrote => DidOk("validate_insert")
  /\ "update" \in ScriptEv.wrote =>
       /\ DidOk("validate_update")
       /\ DidOk("backup")
       /\ Exists(disk, backup_file)
  /\ sched0.settings.commit_solr = "true" =>
       /\ "insert" \in ScriptEv.wrote => DidOk("commit_insert")
       /\ "update" \in ScriptEv.wrote => DidOk("commit_update")
  /\ DidOk("save")
  /\ schedFile.scripts[job].last_run = Date(start)

\* C21: a job run is recorded as success exactly when the script exited 0,
\* every file it produced was validated, a produced update file was backed up,
\* with commit_solr true every produced file was committed, and the schedule
\* was saved with last_run at the start date: this holds of the status the
\* iteration hands to its finally block and of the Run Record appended there.
C21_SuccessMeansAllPhases ==
  /\ pc = "finally" =>
       (status = "success" <=>
          (Did("script") /\ AllPhasesDone(script_name, run_time)))
  /\ (pc = "loop" /\ idx > 1) =>
       /\ LastRecord.script = schedule.names[idx - 1]
       /\ LastRecord.status = status
       /\ LastRecord.status = "success" <=>
            (Did("script")
               /\ AllPhasesDone(LastRecord.script, LastRecord.run_time))

\* C21 witness: a job that produced both files and committed them was
\* recorded as success
C21_Witness ==
  /\ pc = "loop" /\ idx > 1
  /\ LastRecord.status = "success"
  /\ ScriptEv.wrote = {"insert", "update"}
  /\ DidOk("commit_insert") /\ DidOk("commit_update")

\* C22: committing is all-or-nothing with respect to the recorded outcome: a
\* job iteration whose Run Record has status failure applied neither its
\* insert batch nor its update batch to the document store.
C22_FailureAppliesNothing ==
  (pc = "loop" /\ idx > 1 /\ LastRecord.status = "failure") =>
    /\ ~DidOk("commit_insert")
    /\ ~DidOk("commit_update")

\* C23: for every update commit ever applied, the backup file written before
\* that commit still exists with the content it had when the commit was
\* applied, whatever runs follow (several runs of the same job on the same
\* date included).
C23_BackupsAreKept ==
  \A f \in protected : f \in disk

====
